---------------------------- MODULE Spec2Model ----------------------------
(***************************************************************************)
(* Model of src/main.py: three ARQ protocols (Stop-and-Wait "rdt",         *)
(* Go-Back-N "gbn", Selective-Repeat "sr") driven by run_protocol over a   *)
(* NetworkChannel that may lose, modify and delay packets.                 *)
(*                                                                         *)
(* Time.  The wall clock time.time() is the variable clock, counted in     *)
(* tenths of a second (Second = 10).  Every driver iteration reads         *)
(* current_time, then spends cfg.proc in the handlers and then sleeps      *)
(* TickLen.  cfg.proc is ProcTime, so that every later time.time() of the  *)
(* iteration is greater than current_time, or 0 in the runs of a clock     *)
(* whose reading does not change within an iteration.  The code sleeps     *)
(* 0.1 s; the model's pause is TickLen tenths, scaled up so that a run has *)
(* few iterations.                                                         *)
(*                                                                         *)
(* Randomness.  Every random.random()/randint draw of                      *)
(* NetworkChannel.transmit is a nondeterministic choice (a Fate); a chance *)
(* of 0 never fires, a chance of 1 always fires.                           *)
(***************************************************************************)
EXTENDS Integers, Sequences, FiniteSets, TLC

(***************************************************************************)
(* Bounds of the model and constants of the program.                       *)
(***************************************************************************)
\* clock units in one second (the clock counts tenths of a second)
Second == 10
\* the driver's pause per iteration, in clock units (scaled)
TickLen == 10
\* time spent between reading current_time and the handlers' clock reads
ProcTime == 1
\* total packets of a run on a faulty channel
TotalPackets == 3
\* total packets of the basic functionality test (execute_test_cases)
TestTotal == 5
\* window of the windowed protocols
WindowSize == 2
\* time budget, in seconds, of a run on a faulty channel
MaxTime == 8
\* max_time default of run_protocol, in seconds
DefaultMaxTime == 30
\* payload positions random.randint may pick in modify_packet
MaxCorruptPos == 1
\* random draws of a chance strictly between 0 and 1 that may fire in one run
MaxFaults == 2
\* NetworkChannel max_delay default, in seconds
MaxDelay == 3
\* timeout default of the three senders, in seconds
Timeout == 2
\* packet_size default
PacketSize == 5

\* acknowledgments a directly fed receiver may leave on the link
MaxFeed == 3

None == -1

Min(a, b) == IF a < b THEN a ELSE b
Max(a, b) == IF a > b THEN a ELSE b

RECURSIVE SumSeq(_)
SumSeq(s) == IF s = <<>> THEN 0 ELSE Head(s) + SumSeq(Tail(s))

(***************************************************************************)
(* DataPacket.  content is the string as its sequence of character codes.  *)
(***************************************************************************)
CalculateChecksum(sequence, content) ==
    (sequence + (IF content # <<>> THEN SumSeq(content) ELSE 0)) % 256

DataPacket(sequence, content, acknowledgment) ==
    [sequence |-> sequence, content |-> content,
     acknowledgment |-> acknowledgment,
     checksum_value |-> CalculateChecksum(sequence, content)]

IsDamaged(packet) ==
    packet.checksum_value # CalculateChecksum(packet.sequence, packet.content)

\* f"DATA{packet_number}-" + "X" * (size - len(prefix)), packet_number < 10
CreatePayload(packet_number, size) ==
    LET prefix == <<68, 65, 84, 65, 48 + packet_number, 45>>
    IN  prefix \o [j \in 1..Max(0, size - Len(prefix)) |-> 88]

\* the senders' packets list, 0-based in the code: Packets(n, bit)[i + 1]
RdtPackets(n) ==
    [k \in 1..n |-> DataPacket((k - 1) % 2, CreatePayload(k - 1, PacketSize), FALSE)]
WinPackets(n) ==
    [k \in 1..n |-> DataPacket(k - 1, CreatePayload(k - 1, PacketSize), FALSE)]

(***************************************************************************)
(* NetworkChannel.  A Fate is the outcome of the three draws of one        *)
(* transmit call: lost, pos (0: the damage draw did not fire, else the     *)
(* 1-based payload position randint picked), hold (seconds).               *)
(***************************************************************************)
\* "first": the draw fires on the run's first transmit call only (a seeded source)
Chances == {"zero", "some", "one", "first"}

\* a link whose loss draw can miss at chance 1
DrawOpen(chance, called) ==
    CASE chance = "zero"  -> {FALSE}
      [] chance = "first" -> {~called}
      [] OTHER            -> {FALSE, TRUE}

Draw(chance, called) ==
    CASE chance = "zero"  -> {FALSE}
      [] chance = "one"   -> {TRUE}
      [] chance = "first" -> {~called}
      [] OTHER            -> {FALSE, TRUE}

LostFate == [lost |-> TRUE, pos |-> 0, hold |-> 0]

AllFates ==
    {LostFate} \cup
    { [lost |-> FALSE, pos |-> p, hold |-> h] : p \in 0..MaxCorruptPos, h \in 0..MaxDelay }

\* the draws of chance "some" that fired in fate f: what f takes of the
\* run's fault budget
Cost(c, f) ==
    (IF f.lost /\ c.loss = "some" THEN 1 ELSE 0)
    + (IF f.pos > 0 /\ c.damage = "some" THEN 1 ELSE 0)
    + (IF f.hold > 0 /\ c.delay = "some" THEN 1 ELSE 0)

\* the fates the three draws of one transmit call can produce, with `used`
\* faults drawn so far
Fates(c, hasContent, called, used) ==
    { f \in AllFates :
        /\ f.lost \in Draw(c.loss, called)
        /\ ~f.lost =>
            /\ \E d \in Draw(c.damage, called) :
                 f.pos \in (IF d /\ hasContent THEN 1..MaxCorruptPos ELSE {0})
            /\ \E d \in Draw(c.delay, called) :
                 f.hold \in (IF d THEN 1..MaxDelay ELSE {0})
        /\ c.max_faults # None => used + Cost(c, f) <= c.max_faults }

\* modify_packet with the position randint picked (1-based)
ModifyPacket(packet, pos) ==
    IF packet.content # <<>>
    THEN DataPacket(packet.sequence,
                    [packet.content EXCEPT ![pos] = @ + 1],
                    packet.acknowledgment)
    ELSE packet

VARIABLES
    cfg,           \* run_protocol's arguments: protocol_name, total, the chances, max_time
    in_transit,    \* NetworkChannel.in_transit
    sender,        \* the transmitter object
    receiver,      \* the receiver object
    clock,         \* time.time()
    start_time,    \* run_protocol's start_time
    current_time,  \* run_protocol's current_time of the iteration
    pc,            \* position of run_protocol
    pending,       \* the list deliver_packets returned, not yet iterated
    results,       \* run_protocol's results
    hist,          \* history of the run (not program state)
    faults         \* random draws of chance "some" that fired so far

vars == <<cfg, in_transit, sender, receiver, clock, start_time, current_time,
          pc, pending, results, hist, faults>>

(***************************************************************************)
(* A handler runs on a record w of the objects it touches; fates are the   *)
(* outcomes of the transmit calls it will make, consumed one per call.     *)
(* bad is set when a call finds no fate or one its draws cannot produce;   *)
(* a dry run only counts the handler's transmit calls.                     *)
(***************************************************************************)
World(fs) ==
    [sender |-> sender, receiver |-> receiver, in_transit |-> in_transit,
     hist |-> hist, faults |-> faults, fates |-> fs, bad |-> FALSE,
     dry |-> FALSE, error |-> "none"]

DryWorld ==
    [World([k \in 1..WindowSize + 1 |-> LostFate]) EXCEPT !.dry = TRUE]

\* the one element of a singleton set: { e : w \in {w0} } is e with w the
\* value of w0, evaluated once
The(S) == CHOOSE y \in S : TRUE

\* NetworkChannel.transmit; index: the sender's index of a data packet (history)
Transmit(w0, packet, to_recipient, index) == The({
    IF w.fates = <<>> \/ w.bad THEN [w EXCEPT !.bad = TRUE]
    ELSE
      LET f == Head(w.fates)
          ok == w.dry \/ f \in Fates(cfg, packet.content # <<>>, w.hist.called, w.faults)
          item == [packet |-> IF f.pos > 0 THEN ModifyPacket(packet, f.pos) ELSE packet,
                   delivery_time |-> clock + f.hold * Second,
                   to_recipient |-> to_recipient,
                   modified |-> f.pos > 0,
                   index |-> index,
                   sent_at |-> clock]
      IN  [w EXCEPT !.bad = ~ok,
                    !.fates = Tail(@),
                    !.hist.called = TRUE,
                    !.faults = IF cfg.max_faults # None THEN @ + Cost(cfg, f) ELSE @,
                    !.in_transit = IF f.lost THEN @ ELSE Append(@, item)]
    : w \in {w0} })

\* a delivery test that misses the entry due exactly now
DueLate(item, now, for_recipient) ==
    now > item.delivery_time /\ item.to_recipient = for_recipient

Due(item, now, for_recipient) ==
    now >= item.delivery_time /\ item.to_recipient = for_recipient

\* NetworkChannel.deliver_packets: the delivered list and the remaining one
Delivered(transit, now, for_recipient) ==
    SelectSeq(transit, LAMBDA item : Due(item, now, for_recipient))
Remaining(transit, now, for_recipient) ==
    SelectSeq(transit, LAMBDA item : ~Due(item, now, for_recipient))

\* history: a data packet with the sender's index i is handed to the link
NoteSend(w0, i) == The({
    [w EXCEPT !.hist.max_sent = Max(@, i),
              !.hist.off_base = @ \/ i # w.sender.base_sequence,
              !.hist.tx0 = IF i = 0 THEN Min(@ + 1, 3) ELSE @]
    : w \in {w0} })

(***************************************************************************)
(* Stop-and-Wait: ReliableSender, ReliableReceiver                         *)
(***************************************************************************)
RdtTransmitPacket(w0, packet_number) == The({
    [w EXCEPT !.sender.timer = clock]
    : w \in { Transmit(NoteSend(w0, packet_number),
                       RdtPackets(cfg.total)[packet_number + 1], TRUE, packet_number) } })

\* a sender that, off by one, starts the unit after base
RdtBeginTransmissionAhead(w0) == The({
    IF w.sender.base_sequence + 1 < cfg.total /\ w.sender.timer = None
    THEN RdtTransmitPacket(w, w.sender.base_sequence + 1)
    ELSE w
    : w \in {w0} })

RdtBeginTransmission(w0) == The({
    IF w.sender.base_sequence < cfg.total /\ w.sender.timer = None
    THEN RdtTransmitPacket(w, w.sender.base_sequence)
    ELSE w
    : w \in {w0} })

RdtProcessAcknowledgment(w0, ack_packet) == The({
    IF IsDamaged(ack_packet) THEN w
    ELSE IF w.sender.base_sequence >= cfg.total
    THEN [w EXCEPT !.error = "IndexError"]    \* self.packets[self.base_sequence]
    ELSE
      LET expected == RdtPackets(cfg.total)[w.sender.base_sequence + 1].sequence
      IN  IF ack_packet.acknowledgment /\ ack_packet.sequence = expected
          THEN RdtBeginTransmission(
                   [w EXCEPT !.sender.base_sequence = @ + 1, !.sender.timer = None])
          ELSE w
    : w \in {w0} })

RdtCheckForTimeout(w0) == The({
    IF w.sender.timer # None /\ clock - w.sender.timer > Timeout * Second
    THEN RdtTransmitPacket(w, w.sender.base_sequence)
    ELSE w
    : w \in {w0} })

\* a receiver that appends the expected packet and forgets to flip the bit
RdtAcceptNoFlip(w0, item) == The({
    IF item.packet.sequence = w.receiver.expected_sequence
    THEN [w EXCEPT !.receiver.received_data = Append(@, item.packet.content),
                   !.hist.accepted = Append(@, item.index)]
    ELSE w
    : w \in {w0} })

\* the clean packet is appended when it is the expected one
RdtAccept(w0, item) == The({
    IF item.packet.sequence = w.receiver.expected_sequence
    THEN [w EXCEPT !.receiver.received_data = Append(@, item.packet.content),
                   !.receiver.expected_sequence = 1 - @,
                   !.hist.accepted = Append(@, item.index)]
    ELSE w
    : w \in {w0} })

RdtReceivePacket(w0, item) == The({
    IF IsDamaged(item.packet)
    THEN Transmit(w, DataPacket(1 - w.receiver.expected_sequence, <<>>, TRUE), FALSE, None)
    ELSE Transmit(RdtAccept(w, item), DataPacket(item.packet.sequence, <<>>, TRUE),
                  FALSE, None)
    : w \in {w0} })

(***************************************************************************)
(* Go-Back-N: WindowedSender, WindowedReceiver                             *)
(***************************************************************************)
\* a sender whose window is one unit too wide
RECURSIVE GbnSendLoopWide(_)
GbnSendLoopWide(w0) == The({
    IF w.sender.next_sequence <
           Min(w.sender.base_sequence + WindowSize + 1, cfg.total) /\ ~w.bad
    THEN LET n == w.sender.next_sequence
         IN  GbnSendLoopWide(
                 [Transmit(NoteSend(w, n), WinPackets(cfg.total)[n + 1], TRUE, n)
                     EXCEPT !.sender.next_sequence = n + 1])
    ELSE w
    : w \in {w0} })

\* the while loop of begin_transmission
RECURSIVE GbnSendLoop(_)
GbnSendLoop(w0) == The({
    IF w.sender.next_sequence <
           Min(w.sender.base_sequence + WindowSize, cfg.total) /\ ~w.bad
    THEN LET n == w.sender.next_sequence
         IN  GbnSendLoop(
                 [Transmit(NoteSend(w, n), WinPackets(cfg.total)[n + 1], TRUE, n)
                     EXCEPT !.sender.next_sequence = n + 1])
    ELSE w
    : w \in {w0} })

GbnBeginTransmission(w0) == The({
    IF w.sender.timer = None /\ w.sender.base_sequence < w.sender.next_sequence
    THEN [w EXCEPT !.sender.timer = clock]
    ELSE w
    : w \in { GbnSendLoop(w0) } })

GbnProcessAcknowledgment(w0, ack_packet) == The({
    IF IsDamaged(ack_packet) THEN w
    ELSE IF w.sender.base_sequence <= ack_packet.sequence
            /\ ack_packet.sequence < cfg.total
    THEN LET base == ack_packet.sequence + 1
         IN  GbnBeginTransmission(
                 [w EXCEPT !.sender.base_sequence = base,
                           !.sender.timer =
                               IF base = w.sender.next_sequence THEN None ELSE clock])
    ELSE w
    : w \in {w0} })

\* a sender whose window timer never fires
GbnCheckForTimeoutNever(w0) == w0

GbnCheckForTimeout(w0) == The({
    IF w.sender.timer # None /\ clock - w.sender.timer > Timeout * Second
    THEN GbnBeginTransmission(
             [w EXCEPT !.sender.next_sequence = w.sender.base_sequence])
    ELSE w
    : w \in {w0} })

\* the clean packet is appended when it is the expected one
GbnAccept(w0, item) == The({
    IF item.packet.sequence = w.receiver.expected_sequence
    THEN [w EXCEPT !.receiver.received_data = Append(@, item.packet.content),
                   !.receiver.expected_sequence = @ + 1,
                   !.hist.accepted = Append(@, item.index)]
    ELSE w
    : w \in {w0} })

\* a receiver that acknowledges the unit it expects next
GbnAcknowledgeNext(w0) == The({
    Transmit(w, DataPacket(w.receiver.expected_sequence, <<>>, TRUE), FALSE, None)
    : w \in {w0} })

\* both branches acknowledge expected_sequence - 1, read after the append
GbnAcknowledge(w0) == The({
    Transmit(w, DataPacket(w.receiver.expected_sequence - 1, <<>>, TRUE), FALSE, None)
    : w \in {w0} })

GbnReceivePacket(w0, item) ==
    IF IsDamaged(item.packet)
    THEN GbnAcknowledge(w0)
    ELSE GbnAcknowledge(GbnAccept(w0, item))

(***************************************************************************)
(* Selective-Repeat: SelectiveSender, SelectiveReceiver.  acknowledged and *)
(* timers are the code's lists, indexed from 0.                            *)
(***************************************************************************)
\* the for loop of begin_transmission over range(seq, stop)
RECURSIVE SrSendLoop(_, _, _)
SrSendLoop(w0, seq, stop) == The({
    IF seq >= stop \/ w.bad THEN w
    ELSE IF ~w.sender.acknowledged[seq] /\ w.sender.timers[seq] = None
    THEN SrSendLoop(
             [Transmit(NoteSend(w, seq), WinPackets(cfg.total)[seq + 1], TRUE, seq)
                 EXCEPT !.sender.timers[seq] = clock],
             seq + 1, stop)
    ELSE SrSendLoop(w, seq + 1, stop)
    : w \in {w0} })

SrBeginTransmission(w0) == The({
    SrSendLoop(w, w.sender.base_sequence,
               Min(w.sender.base_sequence + WindowSize, cfg.total))
    : w \in {w0} })

\* a sender whose base steps over one index whether acknowledged or not
SrSlideAny(acknowledged, base) ==
    IF base < cfg.total THEN base + 1 ELSE base

\* while base_sequence < total_packets and acknowledged[base_sequence]
RECURSIVE SrSlide(_, _)
SrSlide(acknowledged, base) ==
    IF base < cfg.total /\ acknowledged[base]
    THEN SrSlide(acknowledged, base + 1)
    ELSE base

\* a sender that marks the acknowledged unit and leaves its timer running
SrProcessAcknowledgmentKeepTimer(w0, ack_packet) == The({
    LET seq_number == ack_packet.sequence IN
    IF IsDamaged(ack_packet) THEN w
    ELSE IF 0 <= seq_number /\ seq_number < cfg.total
            /\ ~w.sender.acknowledged[seq_number]
    THEN LET acked == [w.sender.acknowledged EXCEPT ![seq_number] = TRUE]
         IN  SrBeginTransmission(
                 [w EXCEPT !.sender.acknowledged = acked,
                           !.sender.base_sequence = SrSlide(acked, @)])
    ELSE w
    : w \in {w0} })

SrProcessAcknowledgment(w0, ack_packet) == The({
    LET seq_number == ack_packet.sequence IN
    IF IsDamaged(ack_packet) THEN w
    ELSE IF 0 <= seq_number /\ seq_number < cfg.total
            /\ ~w.sender.acknowledged[seq_number]
    THEN LET acked == [w.sender.acknowledged EXCEPT ![seq_number] = TRUE]
         IN  SrBeginTransmission(
                 [w EXCEPT !.sender.acknowledged = acked,
                           !.sender.timers[seq_number] = None,
                           !.sender.base_sequence = SrSlide(acked, @)])
    ELSE w
    : w \in {w0} })

\* the for loop of check_for_timeout over range(seq, stop)
RECURSIVE SrTimeoutLoop(_, _, _)
SrTimeoutLoop(w0, seq, stop) == The({
    IF seq >= stop \/ w.bad THEN w
    ELSE IF /\ ~w.sender.acknowledged[seq]
            /\ w.sender.timers[seq] # None
            /\ clock - w.sender.timers[seq] > Timeout * Second
    THEN SrTimeoutLoop(
             [Transmit(NoteSend(w, seq), WinPackets(cfg.total)[seq + 1], TRUE, seq)
                 EXCEPT !.sender.timers[seq] = clock],
             seq + 1, stop)
    ELSE SrTimeoutLoop(w, seq + 1, stop)
    : w \in {w0} })

SrCheckForTimeout(w0) == The({
    SrTimeoutLoop(w, w.sender.base_sequence,
                  Min(w.sender.base_sequence + WindowSize, cfg.total))
    : w \in {w0} })

\* while self.base_sequence in self.buffer
RECURSIVE SrDrain(_)
SrDrain(w0) == The({
    LET base == w.receiver.base_sequence IN
    IF base \in DOMAIN w.receiver.buffer
    THEN SrDrain([w EXCEPT
             !.receiver.received_data = Append(@, w.receiver.buffer[base]),
             !.receiver.buffer = [k \in DOMAIN @ \ {base} |-> @[k]],
             !.receiver.base_sequence = base + 1,
             !.hist.accepted = Append(@, base)])
    ELSE w
    : w \in {w0} })

\* a receiver that acknowledges only what it buffers
SrBufferOrAckOnce(w0, packet) == The({
    LET seq_number == packet.sequence
        base == w.receiver.base_sequence
    IN  IF base <= seq_number /\ seq_number < base + WindowSize
        THEN Transmit(
                 [w EXCEPT !.receiver.buffer =
                     [k \in DOMAIN @ \cup {seq_number} |->
                         IF k = seq_number THEN packet.content ELSE @[k]]],
                 DataPacket(seq_number, <<>>, TRUE), FALSE, None)
        ELSE w
    : w \in {w0} })

\* the window test of receive_packet: buffer and acknowledge, acknowledge, or ignore
SrBufferOrAck(w0, packet) == The({
    LET seq_number == packet.sequence
        base == w.receiver.base_sequence
    IN  IF base <= seq_number /\ seq_number < base + WindowSize
        THEN Transmit(
                 [w EXCEPT !.receiver.buffer =
                     [k \in DOMAIN @ \cup {seq_number} |->
                         IF k = seq_number THEN packet.content ELSE @[k]]],
                 DataPacket(seq_number, <<>>, TRUE), FALSE, None)
        ELSE IF base - WindowSize <= seq_number /\ seq_number < base
        THEN Transmit(w, DataPacket(seq_number, <<>>, TRUE), FALSE, None)
        ELSE w
    : w \in {w0} })

SrReceivePacket(w0, item) ==
    IF IsDamaged(item.packet) THEN w0
    ELSE SrDrain(SrBufferOrAck(w0, item.packet))

(***************************************************************************)
(* run_protocol                                                            *)
(***************************************************************************)
Protocols == {"rdt", "gbn", "sr"}

Config(name, total, loss, damage, delay, max_time, max_faults) ==
    [protocol_name |-> name, total |-> total, loss |-> loss,
     damage |-> damage, delay |-> delay, max_time |-> max_time,
     max_faults |-> max_faults, proc |-> ProcTime]

\* the basic functionality test on an ideal channel (Scenario A)
IdealInputs ==
    { Config(n, TestTotal, "zero", "zero", "zero", DefaultMaxTime, None) : n \in Protocols }

\* the windowed protocols on a channel that only delays (Scenario D)
DelayInputs ==
    { Config(n, TotalPackets, "zero", "zero", "some", DefaultMaxTime, MaxFaults) :
        n \in {"gbn", "sr"} }

\* an ideal channel on a platform whose time.time() does not advance between the
\* reads of one iteration (a clock of coarse resolution)
CoarseInputs ==
    { [Config(n, TotalPackets, "zero", "zero", "zero", MaxTime, None) EXCEPT !.proc = 0] :
        n \in Protocols }

\* the runs the model starts: a faulty channel whose draws fire at most
\* MaxFaults times on TotalPackets packets, total loss, the two scenarios
\* above, a single forced corruption of the first transmission (Scenario C),
\* and a selector run_protocol does not know
Inputs ==
    { Config(n, TotalPackets, "some", "some", "some", MaxTime, MaxFaults) : n \in Protocols }
    \cup { Config(n, TotalPackets, "one", "some", "some", MaxTime, MaxFaults) : n \in Protocols }
    \cup IdealInputs
    \cup DelayInputs
    \cup CoarseInputs
    \cup { Config(n, TotalPackets, "zero", "first", "zero", MaxTime, None) : n \in Protocols }
    \cup { Config("other", TotalPackets, "some", "some", "some", MaxTime, MaxFaults) }

NewSender(c) ==
    CASE c.protocol_name = "rdt" ->
           [base_sequence |-> 0, current_sequence |-> 0, timer |-> None]
      [] c.protocol_name = "gbn" ->
           [base_sequence |-> 0, next_sequence |-> 0, timer |-> None]
      [] c.protocol_name = "sr" ->
           [base_sequence |-> 0,
            acknowledged |-> [i \in 0..c.total - 1 |-> FALSE],
            timers |-> [i \in 0..c.total - 1 |-> None]]
      [] OTHER -> [unbound |-> TRUE]

NewReceiver(c) ==
    CASE c.protocol_name \in {"rdt", "gbn"} ->
           [expected_sequence |-> 0, received_data |-> <<>>]
      [] c.protocol_name = "sr" ->
           [base_sequence |-> 0, buffer |-> <<>>, received_data |-> <<>>]
      [] OTHER -> [unbound |-> TRUE]

\* success_rate is the fraction <<numerator, denominator>>
NoResults == [total_packets |-> None, received_packets |-> None,
              success_rate |-> <<0, 1>>, timeout_occurred |-> FALSE]

\* the history of a run that has not begun
NoHist == [called |-> FALSE, max_sent |-> -1, off_base |-> FALSE, tx0 |-> 0,
           accepted |-> <<>>, raised |-> "none"]

\* the state run_protocol is in once it has built the channel and the pair
Start(inputs) ==
    /\ cfg \in inputs
    /\ in_transit = <<>>
    /\ sender = NewSender(cfg)
    /\ receiver = NewReceiver(cfg)
    /\ clock = 0
    /\ start_time = None
    /\ current_time = None
    /\ pc = "begin"
    /\ pending = <<>>
    /\ results = NoResults
    /\ hist = NoHist
    /\ faults = 0

Init == Start(Inputs)

BeginTransmission(w) ==
    CASE cfg.protocol_name = "rdt" -> RdtBeginTransmission(w)
      [] cfg.protocol_name = "gbn" -> GbnBeginTransmission(w)
      [] cfg.protocol_name = "sr"  -> SrBeginTransmission(w)
      [] OTHER -> [w EXCEPT !.error = "UnboundLocalError"]

ReceivePacket(w, item) ==
    CASE cfg.protocol_name = "rdt" -> RdtReceivePacket(w, item)
      [] cfg.protocol_name = "gbn" -> GbnReceivePacket(w, item)
      [] OTHER                     -> SrReceivePacket(w, item)

ProcessAcknowledgment(w, ack_packet) ==
    CASE cfg.protocol_name = "rdt" -> RdtProcessAcknowledgment(w, ack_packet)
      [] cfg.protocol_name = "gbn" -> GbnProcessAcknowledgment(w, ack_packet)
      [] OTHER                     -> SrProcessAcknowledgment(w, ack_packet)

CheckForTimeout(w) ==
    CASE cfg.protocol_name = "rdt" -> RdtCheckForTimeout(w)
      [] cfg.protocol_name = "gbn" -> GbnCheckForTimeout(w)
      [] OTHER                     -> SrCheckForTimeout(w)

\* the sequences of fates n transmit calls can draw, with `used` faults drawn
\* so far
RECURSIVE FateSeqs(_, _, _, _)
FateSeqs(n, hasContent, called, used) ==
    IF n = 0 THEN {<<>>}
    ELSE UNION { { <<f>> \o rest :
                     rest \in FateSeqs(n - 1, hasContent, TRUE,
                                       IF cfg.max_faults # None
                                       THEN used + Cost(cfg, f) ELSE used) } :
                 f \in Fates(cfg, hasContent, called, used) }

\* the call run_protocol makes at position `call`, on the world w
Handler(call, w) ==
    CASE call = "begin"   -> BeginTransmission(w)
      [] call = "receive" -> ReceivePacket(w, Head(pending))
      [] call = "ack"     -> ProcessAcknowledgment(w, Head(pending).packet)
      [] OTHER            -> CheckForTimeout(w)

\* the results the call can have: one for every outcome of the draws of the
\* transmit calls it makes, each of a packet with content or each of an ack
Outcomes(call, hasContent) ==
    LET n == WindowSize + 1 - Len(Handler(call, DryWorld).fates)
    IN  { Handler(call, World(fs)) : fs \in FateSeqs(n, hasContent, hist.called, faults) }

\* the handler's result r becomes the state; an uncaught exception ends the run
Commit(r, next_pc) ==
    /\ ~r.bad
    /\ r.fates = <<>>
    /\ sender' = r.sender
    /\ receiver' = r.receiver
    /\ in_transit' = r.in_transit
    /\ hist' = [r.hist EXCEPT !.raised = r.error]
    /\ faults' = r.faults
    /\ pc' = IF r.error # "none" THEN "crashed" ELSE next_pc

\* transmitter.begin_transmission(); start_time = time.time()
Begin ==
    /\ pc = "begin"
    /\ \E r \in Outcomes("begin", TRUE) : Commit(r, "top")
    /\ start_time' = clock
    /\ UNCHANGED <<cfg, clock, current_time, pending, results>>

LoopCondition ==
    sender.base_sequence < cfg.total /\ clock - start_time < cfg.max_time * Second

\* one more iteration: current_time = time.time(); deliver_packets(current_time, True)
LoopTop ==
    /\ pc = "top"
    /\ LoopCondition
    /\ current_time' = clock
    /\ pending' = Delivered(in_transit, clock, TRUE)
    /\ in_transit' = Remaining(in_transit, clock, TRUE)
    /\ clock' = clock + cfg.proc
    /\ pc' = "recv"
    /\ UNCHANGED <<cfg, sender, receiver, start_time, results, hist, faults>>

\* receiver.receive_packet(packet) for the next packet of the list
Receive ==
    /\ pc = "recv"
    /\ pending # <<>>
    /\ \E r \in Outcomes("receive", FALSE) :
           Commit(r, "recv")
    /\ pending' = Tail(pending)
    /\ UNCHANGED <<cfg, clock, start_time, current_time, results>>

\* network.deliver_packets(current_time, False)
DeliverAcks ==
    /\ pc = "recv"
    /\ pending = <<>>
    /\ pending' = Delivered(in_transit, current_time, FALSE)
    /\ in_transit' = Remaining(in_transit, current_time, FALSE)
    /\ pc' = "ack"
    /\ UNCHANGED <<cfg, sender, receiver, clock, start_time, current_time, results,
                   hist, faults>>

\* transmitter.process_acknowledgment(ack) for the next ack of the list
ProcessAck ==
    /\ pc = "ack"
    /\ pending # <<>>
    /\ \E r \in Outcomes("ack", TRUE) :
           Commit(r, "ack")
    /\ pending' = Tail(pending)
    /\ UNCHANGED <<cfg, clock, start_time, current_time, results>>

\* transmitter.check_for_timeout(); time.sleep(0.1)
CheckTimeout ==
    /\ pc = "ack"
    /\ pending = <<>>
    /\ \E r \in Outcomes("timeout", TRUE) : Commit(r, "top")
    /\ clock' = clock + TickLen
    /\ UNCHANGED <<cfg, start_time, current_time, pending, results>>

\* the loop ends: results
Finish ==
    /\ pc = "top"
    /\ ~LoopCondition
    /\ results' = [total_packets |-> cfg.total,
                   received_packets |-> Len(receiver.received_data),
                   success_rate |-> IF cfg.total > 0
                                    THEN <<Len(receiver.received_data), cfg.total>>
                                    ELSE <<0, 1>>,
                   timeout_occurred |-> sender.base_sequence < cfg.total]
    /\ pc' = "done"
    /\ UNCHANGED <<cfg, in_transit, sender, receiver, clock, start_time,
                   current_time, pending, hist, faults>>

Next == Begin \/ LoopTop \/ Receive \/ DeliverAcks \/ ProcessAck \/ CheckTimeout \/ Finish

Spec == Init /\ [][Next]_vars

\* the driver is one sequential loop: whatever step is next is taken
FairSpec == Spec /\ WF_vars(Next)

\* the runs of Scenario A and of Scenario D alone
IdealSpec == Start(IdealInputs) /\ [][Next]_vars /\ WF_vars(Next)
DelaySpec == Start(DelayInputs) /\ [][Next]_vars /\ WF_vars(Next)

(***************************************************************************)
(* SelectiveReceiver.receive_packet called directly: a receiver on a link  *)
(* that drops, changes and holds nothing is handed one packet after        *)
(* another, of any sequence number around its windows, clean or with a     *)
(* checksum_value that does not match.                                     *)
(***************************************************************************)
FeedInputs ==
    { Config("sr", TotalPackets, "zero", "zero", "zero", MaxTime, None) }

FeedPackets ==
    LET clean == { DataPacket(n, CreatePayload(Max(n, 0), PacketSize), FALSE) :
                     n \in -1..TotalPackets + WindowSize }
    IN  clean \cup { [q EXCEPT !.checksum_value = (@ + 1) % 256] : q \in clean }

FeedStart ==
    /\ cfg \in FeedInputs
    /\ in_transit = <<>>
    /\ sender = NewSender(cfg)
    /\ receiver = NewReceiver(cfg)
    /\ clock = 0
    /\ start_time = 0
    /\ current_time = 0
    /\ pc = "recv"
    /\ pending = <<>>
    /\ results = NoResults
    /\ hist = NoHist
    /\ faults = 0

\* the caller picks the next packet for receive_packet
Feed ==
    /\ pc = "recv"
    /\ pending = <<>>
    /\ Len(in_transit) < MaxFeed
    /\ \E q \in FeedPackets :
           pending' = << [packet |-> q, delivery_time |-> clock, to_recipient |-> TRUE,
                          modified |-> IsDamaged(q), index |-> q.sequence,
                          sent_at |-> clock] >>
    /\ UNCHANGED <<cfg, in_transit, sender, receiver, clock, start_time, current_time,
                   pc, results, hist, faults>>

FeedNext == Feed \/ Receive

FeedSpec == FeedStart /\ [][FeedNext]_vars

(***************************************************************************)
(* The properties checked.                                                 *)
(***************************************************************************)
\* the payloads the sender of n packets was built with, in order
AllPayloads(n) == [k \in 1..n |-> CreatePayload(k - 1, PacketSize)]

\* every unit the link holds or has just handed over
Items == { in_transit[i] : i \in DOMAIN in_transit } \cup { pending[i] : i \in DOMAIN pending }

Known == cfg.protocol_name \in Protocols

\* C1: a unit the link passes on unmodified is not damaged(), and the unit that
\* replaces one whose non-empty payload the corruption draw changed is damaged()
C1_DamagedIffModified ==
    \A item \in Items : IsDamaged(item.packet) = item.modified

\* C2: the Go-Back-N receiver's received_data is a prefix of the payloads the
\* sender was built with: no gap, no reordering, no altered payload
C2_GbnReceivedIsPrefix ==
    cfg.protocol_name = "gbn" =>
        /\ Len(receiver.received_data) <= cfg.total
        /\ \A i \in DOMAIN receiver.received_data :
               receiver.received_data[i] = AllPayloads(cfg.total)[i]

\* C3: for each of the three receivers no unit of the sender contributes two
\* entries of received_data, which never holds more than total entries
C3_Idempotent ==
    Known =>
        /\ Len(receiver.received_data) <= cfg.total
        /\ \A i, j \in DOMAIN hist.accepted :
               i # j => hist.accepted[i] # hist.accepted[j]

\* C4: the Selective-Repeat receiver's received_data is exactly the payloads of
\* the sequence numbers 0..base-1, in order
C4_SrReceivedIsExact ==
    cfg.protocol_name = "sr" =>
        /\ Len(receiver.received_data) = receiver.base_sequence
        /\ receiver.base_sequence <= cfg.total
        /\ \A i \in DOMAIN receiver.received_data :
               receiver.received_data[i] = AllPayloads(cfg.total)[i]

\* C5: no call the driver makes to receive_packet, process_acknowledgment or
\* check_for_timeout raises: the Stop-and-Wait sender never reads
\* packets[base_sequence] with base_sequence = total_packets
C5_NoException ==
    Known => pc # "crashed"

Ideal == cfg \in IdealInputs

AllDelivered ==
    /\ Known
    /\ sender.base_sequence = cfg.total
    /\ receiver.received_data = AllPayloads(cfg.total)

Succeeded ==
    /\ pc = "done"
    /\ AllDelivered
    /\ results.received_packets = cfg.total
    /\ results.success_rate[1] = results.success_rate[2]
    /\ ~results.timeout_occurred

\* C6: on the ideal channel with 5 packets each protocol's run ends, before the
\* budget, with base_sequence = total, the five payloads delivered in order,
\* success rate 1 and no timeout reported
C6_IdealRunCompletes ==
    Ideal => <>Succeeded

\* C6: an ideal run has ended with everything delivered
C6_Witness ==
    Ideal /\ Succeeded /\ Len(receiver.received_data) = TestTotal

DelayOnly == cfg \in DelayInputs

\* C7: on a channel that only delays, Go-Back-N and Selective-Repeat reach
\* base_sequence = total with all payloads received in the original order
C7_DelayOnlyCompletes ==
    DelayOnly => <>AllDelivered

\* C7: a delay-only run is complete after all its delays were drawn and unit 0
\* was sent again on a timeout
C7_Witness ==
    DelayOnly /\ AllDelivered /\ faults = MaxFaults /\ hist.tx0 >= 2

\* C8: Stop-and-Wait with the one corruption on the first transmission of unit
\* 0 and no loss or delay: unit 0 is transmitted exactly twice and the run ends
\* with the original payloads delivered
C8_SingleCorruptionRecovered ==
    (cfg.protocol_name = "rdt" /\ cfg.damage = "first" /\ pc = "done") =>
        /\ hist.tx0 = 2
        /\ receiver.received_data = AllPayloads(cfg.total)

\* C9: the Stop-and-Wait sender hands the link only the unit at base_sequence:
\* no unit above base_sequence was ever transmitted or is in flight, so at most
\* one unacknowledged unit is outstanding
C9_RdtOneOutstanding ==
    cfg.protocol_name = "rdt" =>
        /\ ~hist.off_base
        /\ hist.max_sent <= sender.base_sequence
        /\ \A item \in Items : item.to_recipient => item.index <= sender.base_sequence

\* C9: the sender has moved past unit 0, which it had sent twice, and a copy of
\* unit 0 is still in flight beside the unit at base_sequence
C9_Witness ==
    /\ cfg.protocol_name = "rdt"
    /\ sender.base_sequence = 1
    /\ hist.tx0 >= 2
    /\ \E a, b \in Items : a.to_recipient /\ b.to_recipient /\ a.index = 0 /\ b.index = 1

\* C10: the Go-Back-N sender keeps base <= next <= min(base + window, total)
C10_GbnWindowBound ==
    cfg.protocol_name = "gbn" =>
        /\ sender.base_sequence <= sender.next_sequence
        /\ sender.next_sequence <= Min(sender.base_sequence + WindowSize, cfg.total)

\* C10: the window is full above a base that has advanced, after a timeout has
\* resent unit 0, and an acknowledgment below base is about to be processed
C10_Witness ==
    /\ cfg.protocol_name = "gbn"
    /\ sender.base_sequence >= 1
    /\ sender.next_sequence = sender.base_sequence + WindowSize
    /\ hist.tx0 >= 2
    /\ pc = "ack" /\ pending # <<>>
    /\ Head(pending).packet.sequence < sender.base_sequence

\* C11: the Selective-Repeat sender's base has only passed acknowledged
\* indices: acknowledged[i] for every i < base, and acknowledged[base] is
\* false while base < total
C11_SrBaseAcknowledged ==
    cfg.protocol_name = "sr" =>
        /\ \A i \in 0..sender.base_sequence - 1 : sender.acknowledged[i]
        /\ sender.base_sequence < cfg.total =>
               ~sender.acknowledged[sender.base_sequence]

\* C11: base has advanced, is not at the end, and a unit above base was
\* acknowledged out of order
C11_Witness ==
    /\ cfg.protocol_name = "sr"
    /\ sender.base_sequence >= 1
    /\ sender.base_sequence + 1 < cfg.total
    /\ sender.acknowledged[sender.base_sequence + 1]

TotalLoss == Known /\ cfg.loss = "one"

\* C12: with loss chance 1 the link never holds an entry, received_data stays
\* empty and base_sequence stays 0; the run ends only when the budget has
\* elapsed, with 0 received packets and timeout_occurred true
C12_TotalLoss ==
    TotalLoss =>
        /\ in_transit = <<>> /\ pending = <<>>
        /\ receiver.received_data = <<>>
        /\ sender.base_sequence = 0
        /\ pc # "crashed"
        /\ pc = "done" =>
               /\ clock - start_time >= cfg.max_time * Second
               /\ results.received_packets = 0
               /\ results.success_rate[1] = 0
               /\ results.timeout_occurred

\* C12: a run under total loss has ended after the sender retransmitted unit 0
C12_Witness ==
    TotalLoss /\ pc = "done" /\ results.timeout_occurred /\ hist.tx0 >= 2

\* C13: a selector run_protocol does not know is rejected before the link and
\* the pair are built: the driver never goes on to call begin_transmission
\* with the transmitter unbound, so no run ends by the unbound name being read
C13_UnknownSelectorRejected ==
    ~Known => (pc # "crashed" /\ hist.raised # "UnboundLocalError")

\* C14: within one iteration the receiver-bound deliveries are all processed
\* before the sender-bound poll, and no acknowledgment handed to the link during
\* an iteration is in the list that iteration's sender-bound poll returns, held
\* or not: it is consumed at the next iteration at the earliest
C14_AckNextTick ==
    Known =>
        /\ pc = "recv" => \A i \in DOMAIN pending : pending[i].to_recipient
        /\ pc = "ack" =>
               \A i \in DOMAIN pending :
                   /\ ~pending[i].to_recipient
                   /\ pending[i].sent_at < current_time

\* s is t with some entries left out, the others in the same order
RECURSIVE IsSubSeq(_, _)
IsSubSeq(s, t) ==
    IF s = <<>> THEN TRUE
    ELSE IF t = <<>> THEN FALSE
    ELSE IF Head(s) = Head(t) THEN IsSubSeq(Tail(s), Tail(t))
    ELSE IsSubSeq(s, Tail(t))

\* a poll at time now for party dest splits the list before into the returned
\* list out and the kept list rest
ExactSplit(before, out, rest, now, dest) ==
    /\ \A i \in DOMAIN out :
           out[i].to_recipient = dest /\ out[i].delivery_time <= now
    /\ \A i \in DOMAIN rest :
           ~(rest[i].to_recipient = dest /\ rest[i].delivery_time <= now)
    /\ Len(out) + Len(rest) = Len(before)
    /\ IsSubSeq(out, before)
    /\ IsSubSeq(rest, before)

\* C15: every deliver_packets call returns, in insertion order, exactly the
\* entries for the polled party that are due, and keeps every other entry in
\* the same relative order: nothing is returned twice, to the other party or
\* before its delivery time
C15_DeliverExact ==
    [][ /\ (pc = "top" /\ pc' = "recv") =>
               ExactSplit(in_transit, pending', in_transit', current_time', TRUE)
        /\ (pc = "recv" /\ pc' = "ack") =>
               ExactSplit(in_transit, pending', in_transit', current_time, FALSE)
      ]_vars

\* C15: a receiver-bound poll has just returned a unit and kept both a
\* receiver-bound unit that is not due and a due unit for the sender
C15_Witness ==
    /\ pc = "recv" /\ pending # <<>>
    /\ \A i \in DOMAIN in_transit :
           ~in_transit[i].to_recipient => in_transit[i].sent_at < current_time
    /\ \E i, j \in DOMAIN in_transit :
           /\ in_transit[i].to_recipient
           /\ in_transit[i].delivery_time > current_time
           /\ ~in_transit[j].to_recipient
           /\ in_transit[j].delivery_time <= current_time

\* exactly one acknowledgment, for sequence number n, was handed to the link
OneAckFor(n) ==
    /\ Len(in_transit') = Len(in_transit) + 1
    /\ SubSeq(in_transit', 1, Len(in_transit)) = in_transit
    /\ in_transit'[Len(in_transit')].packet = DataPacket(n, <<>>, TRUE)
    /\ ~in_transit'[Len(in_transit')].to_recipient

\* C16: what one receive_packet call of the Selective-Repeat receiver does with
\* a packet of sequence number n: in the window it buffers the payload and
\* sends one acknowledgment for n; in the window before, it sends one
\* acknowledgment for n and keeps buffer and received_data; elsewhere, and for
\* a damaged packet, it sends nothing and changes nothing
C16_SrReceiveCases ==
    [][ (cfg.protocol_name = "sr" /\ pc = "recv" /\ pending # <<>>) =>
          LET q == Head(pending).packet
              n == q.sequence
              base == receiver.base_sequence
          IN  IF IsDamaged(q)
              THEN in_transit' = in_transit /\ receiver' = receiver
              ELSE IF base <= n /\ n < base + WindowSize
              THEN /\ OneAckFor(n)
                   /\ n >= receiver'.base_sequence =>
                          /\ n \in DOMAIN receiver'.buffer
                          /\ receiver'.buffer[n] = q.content
                   /\ n < receiver'.base_sequence =>
                          receiver'.received_data[n + 1] = q.content
              ELSE IF base - WindowSize <= n /\ n < base
              THEN OneAckFor(n) /\ receiver' = receiver
              ELSE in_transit' = in_transit /\ receiver' = receiver
      ]_vars

\* C16: a directly fed receiver holds a unit buffered above base and has
\* acknowledged a second time a unit below base
C16_Witness ==
    /\ cfg \in FeedInputs
    /\ pc = "recv" /\ pending = <<>>
    /\ receiver.base_sequence >= 1
    /\ DOMAIN receiver.buffer # {}
    /\ \E i, j \in DOMAIN in_transit :
           /\ i < j
           /\ in_transit[i].packet.sequence = in_transit[j].packet.sequence
           /\ in_transit[j].packet.sequence < receiver.base_sequence

Windowed == cfg.protocol_name \in {"gbn", "sr"}

\* the receiver's cursor: the next sequence number it will hand on
Cursor ==
    IF cfg.protocol_name = "gbn" THEN receiver.expected_sequence
    ELSE receiver.base_sequence

\* C17: in Go-Back-N and Selective-Repeat the sender's base is never beyond
\* what the receiver has taken and the receiver is never more than a window
\* ahead: base <= cursor <= base + window; a run that ends without
\* timeout_occurred has received total packets
C17_WindowedCursor ==
    Windowed =>
        /\ sender.base_sequence <= Cursor
        /\ Cursor <= sender.base_sequence + WindowSize
        /\ (pc = "done" /\ ~results.timeout_occurred) =>
               results.received_packets = cfg.total

\* C17: the receiver is a whole window ahead of a sender whose base has moved
C17_Witness ==
    /\ Windowed
    /\ sender.base_sequence >= 1
    /\ Cursor = sender.base_sequence + WindowSize

\* the units of the sender the receiver has accepted
AcceptedUnits == { hist.accepted[i] : i \in DOMAIN hist.accepted }

\* C18: the Stop-and-Wait sender's base has only passed units the receiver
\* accepted: base <= the number of distinct units accepted, and a run that ends
\* without timeout_occurred has received all payloads in order
C18_RdtBaseBehindReceiver ==
    cfg.protocol_name = "rdt" =>
        /\ sender.base_sequence <= Cardinality(AcceptedUnits)
        /\ \A i \in 0..sender.base_sequence - 1 : i \in AcceptedUnits
        /\ (pc = "done" /\ ~results.timeout_occurred) =>
               receiver.received_data = AllPayloads(cfg.total)

\* the sender has returned from begin_transmission and from every later call
Started == Known /\ pc \notin {"begin", "crashed"}

\* the indices of the Selective-Repeat sender's window
SrWindow ==
    sender.base_sequence ..
        Min(sender.base_sequence + WindowSize, cfg.total) - 1

\* C19: after begin_transmission and after every process_acknowledgment or
\* check_for_timeout call, a sender with work left has a timer armed for it:
\* the Stop-and-Wait timer is armed iff base < total; the Go-Back-N timer is
\* armed iff base < next; Selective-Repeat has timers[i] armed for every
\* unacknowledged i of its window and cleared for every acknowledged i
C19_TimerCoverage ==
    Started =>
        /\ cfg.protocol_name = "rdt" =>
               (sender.timer # None <=> sender.base_sequence < cfg.total)
        /\ cfg.protocol_name = "gbn" =>
               (sender.timer # None <=>
                    sender.base_sequence < sender.next_sequence)
        /\ cfg.protocol_name = "sr" =>
               /\ \A i \in SrWindow :
                      ~sender.acknowledged[i] => sender.timers[i] # None
               /\ \A i \in 0..cfg.total - 1 :
                      sender.acknowledged[i] => sender.timers[i] = None

\* C19: a Selective-Repeat window that has slid, holding past its base an
\* acknowledged unit with its timer cleared and, at its base, an
\* unacknowledged unit with its timer armed
C19_Witness ==
    /\ Started
    /\ cfg.protocol_name = "sr"
    /\ sender.base_sequence >= 1
    /\ \E i \in SrWindow :
           /\ sender.acknowledged[i]
           /\ sender.timers[i] = None
    /\ \E i \in SrWindow :
           /\ ~sender.acknowledged[i]
           /\ sender.timers[i] # None

\* the Go-Back-N window timer has run for more than timeout_duration
GbnExpired ==
    /\ cfg.protocol_name = "gbn"
    /\ sender.timer # None
    /\ clock - sender.timer > Timeout * Second

\* C20: when the Go-Back-N check_for_timeout fires and resends the window it
\* restarts the window timer at the time of the resend, so the next resend
\* waits a further timeout_duration
C20_GbnTimerRestarted ==
    [][(pc = "ack" /\ pc' = "top" /\ GbnExpired) => sender'.timer = clock]_vars
=============================================================================
